---------------------------- MODULE Spec2Model ----------------------------
(***************************************************************************)
(* Model of the iterator state machines of claudiofsr_lib:                 *)
(*   - ChunksAtMost (src/src/slice.rs): splits a slice into at most N      *)
(*     chunks of nearly equal size;                                        *)
(*   - UniqueIterator and Vec::unique (src/src/unique.rs): keeps the first *)
(*     occurrence of every value.                                          *)
(*   - SkipLastIterator (unique.rs), IteratorBack and try_count            *)
(*     (iterations.rs), Vec::unique_ordered, Vec::partition_dup and        *)
(*     [u8]::trim (unique.rs, lib.rs), the StrExtension methods            *)
(*     (strings.rs) and get_random_integer_v2 (random.rs).                 *)
(* Each component has its own specification (SpecChunks, SpecUnique,       *)
(* SpecVec, SpecSkipLast, SpecTryCount, SpecTrim, SpecStrings,             *)
(* SpecRandom); the variables of the other components stay idle.           *)
(***************************************************************************)
EXTENDS Integers, Sequences, FiniteSets

\* ------------------------------------------------------------- bounds
\* Longest input slice / vector / source sequence.
MaxLen == 4
\* Largest number of elements skip_back is asked to skip (larger than MaxLen).
MaxSkip == 5
\* Error values of the Result items try_count counts are drawn from 1..MaxErr.
MaxErr == 2
\* Longest byte slice trim is called on.
MaxBytes == 4
\* Longest string (in characters) the StrExtension methods are called on.
MaxChars == 3
\* Largest num passed to get_last_n_chars (larger than MaxChars).
MaxNum == 4
\* Width in bits of the unsigned integers of random.rs (u64 in the source,
\* scaled down: the arithmetic wraps at 2^WordBits).
WordBits == 4
\* Values of the elements are drawn from 1..MaxElem.
MaxElem == 3
\* Largest requested number of chunks (larger than MaxLen, so that the
\* over-large degenerate case happens).
MaxGroupCount == 6

Elems == 1..MaxElem

RECURSIVE SeqsUpTo(_)
\* All sequences over Elems of length at most n.
SeqsUpTo(n) ==
    IF n = 0 THEN {<<>>}
    ELSE LET shorter == SeqsUpTo(n - 1)
         IN  shorter \cup {Append(s, e) : s \in {t \in shorter : Len(t) = n - 1}, e \in Elems}

Inputs == SeqsUpTo(MaxLen)

RECURSIVE SeqsOf(_, _)
\* All sequences over the set S of length at most n.
SeqsOf(S, n) ==
    IF n = 0 THEN {<<>>}
    ELSE LET shorter == SeqsOf(S, n - 1)
         IN  shorter \cup {Append(s, e) : s \in {t \in shorter : Len(t) = n - 1}, e \in S}

VARIABLES
    \* ---- ChunksAtMost (slice.rs)
    data,         \* the slice chunks_at_most was called on
    group_count,  \* the chunk_size argument of chunks_at_most
    data_slice,   \* ChunksAtMost.data_slice: the part not yet emitted
    chunk_size,   \* ChunksAtMost.chunk_size: chunks still to emit
    chunks,       \* the chunks next() returned so far, in order
    ret,          \* outcome of the last call of next(): "Some", "None", "-" before any call
    panicked,     \* "no", or the panic a call of next() ended with
    \* ---- UniqueIterator / Vec::unique (unique.rs)
    source,       \* the sequence get_unique / unique were first applied to
    iter,         \* UniqueIterator.iter: source items not yet pulled
    seen,         \* UniqueIterator.seen
    out,          \* the items next() returned so far, in order
    uret,         \* outcome of the last call of UniqueIterator::next()
    pass,         \* 1: iterating over source, 2: iterating over the result of pass 1
    first,        \* the collected result of pass 1 (<<>> during pass 1)
    items,        \* the Vec<T> that unique() mutates in place
    calls,        \* number of calls of items.unique() so far
    after_first,  \* items right after the first call of unique()
    \* ---- one call of a function or method (unique.rs, iterations.rs, lib.rs,
    \*      strings.rs, random.rs)
    receiver,     \* self before the call (<<>> for a free function)
    argument,     \* the argument(s) of the call
    called,       \* name of the function called, "-" before the call
    returned,     \* what the call returned, or [panic |-> ...]
    self_after,   \* self after the call
    \* ---- SkipLastIterator (unique.rs)
    peek_iter,    \* Peekable.iter: items of the underlying iterator not yet pulled
    peeked,       \* Peekable.peeked: <<>> is None, <<x>> is Some(x), x = <<>> or <<item>>
    skip_out,     \* the items SkipLastIterator::next() returned so far
    skip_ret,     \* outcome of the last call of SkipLastIterator::next()
    \* ---- try_count (iterations.rs)
    results,      \* the iterator of Result items: [items, tail]
    accumulator,  \* the accumulator of try_fold
    pulled,       \* number of items try_fold pulled from the iterator
    counter       \* what try_count returned, [running |-> TRUE] during the call

chunkVars == <<data, group_count, data_slice, chunk_size, chunks, ret, panicked>>
uniqueVars == <<source, iter, seen, out, uret, pass, first, items, calls, after_first>>
callVars == <<receiver, argument, called, returned, self_after>>
skipLastVars == <<peek_iter, peeked, skip_out, skip_ret>>
tryCountVars == <<results, accumulator, pulled, counter>>
extVars == <<callVars, skipLastVars, tryCountVars>>
vars == <<chunkVars, uniqueVars, extVars>>

\* ====================================================== ChunksAtMost

\* usize::div_ceil as core computes it: quotient, plus one when the
\* remainder is not zero (rhs # 0).
DivFloorPlusOne(lhs, rhs) == (lhs \div rhs) + 1
DivFloor(lhs, rhs) == lhs \div rhs
DivCeil(lhs, rhs) ==
    LET d == lhs \div rhs
        r == lhs % rhs
    IN  IF r > 0 THEN d + 1 ELSE d

\* slice::split_at(mid), mid <= len: ([0, mid), [mid, len)).
SplitAtOverlap(s, mid) == <<SubSeq(s, 1, mid), SubSeq(s, mid, Len(s))>>
SplitAt(s, mid) == <<SubSeq(s, 1, mid), SubSeq(s, mid + 1, Len(s))>>

\* self.chunk_size -= 1
KeepChunkSize(n) == n
DecrementChunkSize(n) == n - 1

\* The early return of next(): chunk_size == 0 || data_slice.is_empty().
ExhaustedOnlyWhenZero(slice, n) == n = 0
Exhausted(slice, n) == n = 0 \/ slice = <<>>

\* ChunksAtMost::new / chunks_at_most: the iterator over one slice.
InitChunksAtMost ==
    /\ data \in Inputs
    /\ group_count \in 0..MaxGroupCount
    /\ data_slice = data
    /\ chunk_size = group_count
    /\ chunks = <<>>
    /\ ret = "-"
    /\ panicked = "no"

IdleChunksAtMost ==
    /\ data = <<>>
    /\ group_count = 0
    /\ data_slice = <<>>
    /\ chunk_size = 0
    /\ chunks = <<>>
    /\ ret = "-"
    /\ panicked = "no"

\* One call of ChunksAtMost::next().
ChunksAtMostNext ==
    /\ panicked = "no"
    /\ IF Exhausted(data_slice, chunk_size)
       THEN /\ ret' = "None"
            /\ UNCHANGED <<data_slice, chunk_size, chunks, panicked>>
       ELSE IF chunk_size = 0
       THEN \* div_ceil panics on a zero divisor
            /\ panicked' = "division by zero"
            /\ UNCHANGED <<data_slice, chunk_size, chunks, ret>>
       ELSE LET group_number == DivCeil(Len(data_slice), chunk_size)
            IN  IF group_number > Len(data_slice)
                THEN \* split_at panics when mid > len
                     /\ panicked' = "mid > len"
                     /\ UNCHANGED <<data_slice, chunk_size, chunks, ret>>
                ELSE LET parts == SplitAt(data_slice, group_number)
                     IN  /\ data_slice' = parts[2]
                         /\ chunk_size' = DecrementChunkSize(chunk_size)
                         /\ chunks' = Append(chunks, parts[1])
                         /\ ret' = "Some"
                         /\ UNCHANGED panicked
    /\ UNCHANGED <<data, group_count>>
    /\ UNCHANGED uniqueVars
    /\ UNCHANGED extVars

RECURSIVE Collect(_, _)
\* chunks_at_most(n).collect() on a slice: next() called until it returns None.
Collect(slice, n) ==
    IF Exhausted(slice, n) THEN <<>>
    ELSE LET parts == SplitAt(slice, DivCeil(Len(slice), n))
         IN  <<parts[1]>> \o Collect(parts[2], DecrementChunkSize(n))


\* ======================================== UniqueIterator, Vec::unique

\* HashSet::insert(value): the set with the value, and whether the value was
\* newly inserted (true exactly when the set did not contain it).
InsertReportsPresent(set, value) == [set |-> set \cup {value}, newly |-> value \in set]
InsertAlwaysNew(set, value) == [set |-> set \cup {value}, newly |-> TRUE]
Insert(set, value) == [set |-> set \cup {value}, newly |-> value \notin set]

RECURSIVE Find(_, _)
\* self.iter.find(|item| self.seen.insert(item.clone())): pulls the items one
\* at a time, inserts each into the set, stops at the first newly inserted.
Find(it, set) ==
    IF it = <<>>
    THEN [found |-> FALSE, rest |-> <<>>, set |-> set]
    ELSE LET ins == Insert(set, Head(it))
         IN  IF ins.newly
             THEN [found |-> TRUE, item |-> Head(it), rest |-> Tail(it), set |-> ins.set]
             ELSE Find(Tail(it), ins.set)

RECURSIVE RetainFrom(_, _)
\* The in-order walk of Vec::retain with the closure |item| seen.insert(item.clone()).
RetainFrom(v, set) ==
    IF v = <<>> THEN <<>>
    ELSE LET ins == Insert(set, Head(v))
         IN  (IF ins.newly THEN <<Head(v)>> ELSE <<>>) \o RetainFrom(Tail(v), ins.set)

RECURSIVE RetainBackwards(_, _)
RetainBackwards(v, set) ==
    IF v = <<>> THEN <<>>
    ELSE LET last == v[Len(v)]
             ins == Insert(set, last)
         IN  RetainBackwards(SubSeq(v, 1, Len(v) - 1), ins.set)
                 \o (IF ins.newly THEN <<last>> ELSE <<>>)

\* Vec::unique: a fresh empty seen set, then retain.
UniqueBackwards(v) == RetainBackwards(v, {})
Unique(v) == RetainFrom(v, {})

\* source.into_iter().get_unique() and a copy of source as the Vec for unique().
InitUnique ==
    /\ source \in Inputs
    /\ iter = source
    /\ seen = {}
    /\ out = <<>>
    /\ uret = "-"
    /\ pass = 1
    /\ first = <<>>
    /\ items = source
    /\ calls = 0
    /\ after_first = <<>>

IdleUnique ==
    /\ source = <<>>
    /\ iter = <<>>
    /\ seen = {}
    /\ out = <<>>
    /\ uret = "-"
    /\ pass = 1
    /\ first = <<>>
    /\ items = <<>>
    /\ calls = 0
    /\ after_first = <<>>

\* One call of UniqueIterator::next().
UniqueIteratorNext ==
    /\ LET r == Find(iter, seen)
       IN  /\ iter' = r.rest
           /\ seen' = r.set
           /\ IF r.found
              THEN /\ out' = Append(out, r.item)
                   /\ uret' = "Some"
              ELSE /\ out' = out
                   /\ uret' = "None"
    /\ UNCHANGED <<source, pass, first, items, calls, after_first>>
    /\ UNCHANGED chunkVars
    /\ UNCHANGED extVars

\* The collected result of the first pass is iterated again:
\* out.into_iter().get_unique(), a new UniqueIterator with an empty seen set.
GetUniqueAgain ==
    /\ pass = 1
    /\ uret = "None"
    /\ first' = out
    /\ iter' = out
    /\ seen' = {}
    /\ out' = <<>>
    /\ uret' = "-"
    /\ pass' = 2
    /\ UNCHANGED <<source, items, calls, after_first>>
    /\ UNCHANGED chunkVars
    /\ UNCHANGED extVars

\* One call of items.unique(); it is called at most twice.
VecUnique ==
    /\ calls < 2
    /\ items' = Unique(items)
    /\ calls' = calls + 1
    /\ after_first' = IF calls = 0 THEN items' ELSE after_first
    /\ UNCHANGED <<source, iter, seen, out, uret, pass, first>>
    /\ UNCHANGED chunkVars
    /\ UNCHANGED extVars

\* ================================================ one call of a method

\* No call in progress and none made.
IdleCall ==
    /\ receiver = <<>>
    /\ argument = <<>>
    /\ called = "-"
    /\ returned = <<>>
    /\ self_after = <<>>

RECURSIVE InsertSorted(_, _)
\* x put before the first greater element of the ascending sequence s.
InsertSorted(s, x) ==
    IF s = <<>> THEN <<x>>
    ELSE IF x <= Head(s) THEN <<x>> \o s
    ELSE <<Head(s)>> \o InsertSorted(Tail(s), x)

RECURSIVE SortUnstable(_)
\* Vec::sort_unstable on values whose equal elements are indistinguishable:
\* the ascending arrangement of the elements.
SortUnstable(v) ==
    IF v = <<>> THEN <<>> ELSE InsertSorted(SortUnstable(Tail(v)), Head(v))

RECURSIVE Dedup(_)
\* Vec::dedup: removes all but the first of consecutive equal elements.
Dedup(v) ==
    IF Len(v) <= 1 THEN v
    ELSE IF v[1] = v[2] THEN Dedup(Tail(v))
    ELSE <<v[1]>> \o Dedup(Tail(v))

\* Vec::unique_ordered: sort_unstable, then dedup.
UniqueOrderedNoSort(v) == Dedup(v)
UniqueOrderedFn(v) == Dedup(SortUnstable(v))

\* items.unique_ordered(): mutates the vector in place, returns ().
UniqueOrdered ==
    /\ called = "-"
    /\ called' = "unique_ordered"
    /\ self_after' = UniqueOrderedFn(receiver)
    /\ returned' = <<>>
    /\ UNCHANGED <<receiver, argument>>
    /\ UNCHANGED <<skipLastVars, tryCountVars>>
    /\ UNCHANGED <<chunkVars, uniqueVars>>

RECURSIVE FilterMap(_, _, _)
\* First loop of partition_dup: for each item in order,
\* filter.insert(item, seen.insert(item)); a later insert replaces the value.
FilterMap(v, set, filter) ==
    IF v = <<>> THEN filter
    ELSE LET ins == Insert(set, Head(v))
         IN  FilterMap(Tail(v), ins.set,
                 [k \in (DOMAIN filter) \cup {Head(v)} |->
                     IF k = Head(v) THEN ins.newly ELSE filter[k]])

RECURSIVE FilterMapKeepFirst(_, _, _)
FilterMapKeepFirst(v, set, filter) ==
    IF v = <<>> THEN filter
    ELSE LET ins == Insert(set, Head(v))
         IN  FilterMapKeepFirst(Tail(v), ins.set,
                 [k \in (DOMAIN filter) \cup {Head(v)} |->
                     IF k \in DOMAIN filter THEN filter[k] ELSE ins.newly])

RECURSIVE PartitionBy(_, _)
\* Second loop of partition_dup: pushes each item to unique when filter[item]
\* is true and to duplicate otherwise.
PartitionBy(v, filter) ==
    IF v = <<>> THEN [unique |-> <<>>, duplicate |-> <<>>]
    ELSE LET rest == PartitionBy(Tail(v), filter)
         IN  IF filter[Head(v)]
             THEN [unique |-> <<Head(v)>> \o rest.unique, duplicate |-> rest.duplicate]
             ELSE [unique |-> rest.unique, duplicate |-> <<Head(v)>> \o rest.duplicate]

PartitionDupKeepFirst(v) == PartitionBy(v, FilterMapKeepFirst(v, {}, <<>>))
PartitionDupFn(v) == PartitionBy(v, FilterMap(v, {}, <<>>))

\* items.partition_dup(): borrows the vector, returns (unique, duplicate).
PartitionDup ==
    /\ called = "-"
    /\ called' = "partition_dup"
    /\ returned' = PartitionDupFn(receiver)
    /\ self_after' = receiver
    /\ UNCHANGED <<receiver, argument>>
    /\ UNCHANGED <<skipLastVars, tryCountVars>>
    /\ UNCHANGED <<chunkVars, uniqueVars>>

\* DoubleEndedIterator::next_back on an iterator over the items it.
NextBack(it) ==
    IF it = <<>> THEN [item |-> <<>>, rest |-> <<>>]
    ELSE [item |-> <<it[Len(it)]>>, rest |-> SubSeq(it, 1, Len(it) - 1)]

RECURSIVE NthBack(_, _)
\* DoubleEndedIterator::nth_back(k): drops k items from the back, stopping
\* with None when the iterator runs out, then returns next_back().
NthBack(it, k) ==
    IF k = 0 THEN NextBack(it)
    ELSE IF it = <<>> THEN [item |-> <<>>, rest |-> <<>>]
    ELSE NthBack(NextBack(it).rest, k - 1)

\* IteratorBack::skip_last: let _last = self.next_back(); self
SkipLastFn(it) == NextBack(it).rest

\* IteratorBack::skip_back: if n > 0 { self.nth_back(n - 1) }; self
SkipBackOffByOne(it, n) == IF n > 0 THEN NthBack(it, n).rest ELSE it
SkipBackFn(it, n) == IF n > 0 THEN NthBack(it, n - 1).rest ELSE it

\* receiver.into_iter().skip_back(n): returns the iterator with its back dropped.
SkipBack ==
    /\ called = "-"
    /\ \E n \in 0..MaxSkip :
          /\ argument' = n
          /\ returned' = SkipBackFn(receiver, n)
    /\ called' = "skip_back"
    /\ self_after' = <<>>
    /\ UNCHANGED receiver
    /\ UNCHANGED <<skipLastVars, tryCountVars>>
    /\ UNCHANGED <<chunkVars, uniqueVars>>

\* A Vec<T> (or its into_iter()) on which one of the methods is about to be called.
InitVecCall ==
    /\ receiver \in Inputs
    /\ argument = <<>>
    /\ called = "-"
    /\ returned = <<>>
    /\ self_after = receiver

\* ============================================== BytesExtension::trim

\* The bytes the slices are made of: tab, line feed, vertical tab, form
\* feed, carriage return, space and the letter A.
ByteAlphabet == {9, 10, 11, 12, 13, 32, 65}

\* u8::is_ascii_whitespace: space, tab, line feed, form feed, carriage return.
IsAsciiWhitespace(b) == b = 32 \/ b = 9 \/ b = 10 \/ b = 12 \/ b = 13

\* Iterator::position / rposition with the predicate !b.is_ascii_whitespace():
\* the 0-based index of the first / last such byte, <<>> for None.
PositionNotWhitespace(s) ==
    LET hits == {i \in 1..Len(s) : ~IsAsciiWhitespace(s[i])}
    IN  IF hits = {} THEN <<>>
        ELSE <<(CHOOSE i \in hits : \A j \in hits : i <= j) - 1>>
RPositionNotWhitespace(s) ==
    LET hits == {i \in 1..Len(s) : ~IsAsciiWhitespace(s[i])}
    IN  IF hits = {} THEN <<>>
        ELSE <<(CHOOSE i \in hits : \A j \in hits : i >= j) - 1>>

\* trim: &self[..0] when position() is None, else &self[from..=to].
TrimExclusiveEnd(s) ==
    IF PositionNotWhitespace(s) = <<>> THEN SubSeq(s, 1, 0)
    ELSE SubSeq(s, PositionNotWhitespace(s)[1] + 1, RPositionNotWhitespace(s)[1])
TrimFn(s) ==
    LET from == PositionNotWhitespace(s)
    IN  IF from = <<>> THEN SubSeq(s, 1, 0)
        ELSE LET to == RPositionNotWhitespace(s)[1]
             IN  SubSeq(s, from[1] + 1, to + 1)

\* A byte slice before trim is called on it.
InitBytes ==
    /\ receiver \in SeqsOf(ByteAlphabet, MaxBytes)
    /\ argument = <<>>
    /\ called = "-"
    /\ returned = <<>>
    /\ self_after = receiver

\* receiver.trim(); argument records the slice the call was made on.
Trim ==
    /\ called = "-"
    /\ called' = "trim"
    /\ argument' = receiver
    /\ returned' = TrimFn(receiver)
    /\ UNCHANGED <<receiver, self_after>>
    /\ UNCHANGED <<skipLastVars, tryCountVars>>
    /\ UNCHANGED <<chunkVars, uniqueVars>>

\* receiver.trim().trim(): trim called on the slice the first call returned.
TrimAgain ==
    /\ called = "trim"
    /\ called' = "trim.trim"
    /\ argument' = returned
    /\ returned' = TrimFn(returned)
    /\ UNCHANGED <<receiver, self_after>>
    /\ UNCHANGED <<skipLastVars, tryCountVars>>
    /\ UNCHANGED <<chunkVars, uniqueVars>>

\* ===================================================== StrExtension
\* A str is modelled as the sequence of its characters (code points); byte
\* indexes are computed from the UTF-8 encoding of the characters.

\* The characters the strings are made of: '1', 'a', '|' and the two-byte
\* 'ç' (U+00E7, bytes 0xC3 0xA7).
CharAlphabet == {49, 97, 124, 231}

\* The delimiter bytes passed to strip_prefix_and_sufix: b'|', b'a' and the
\* two bytes of 'ç'.
DelimiterBytes == {124, 97, 195, 167}

\* The UTF-8 encoding of a character below U+10000.
EncodeUtf8(c) ==
    IF c < 128 THEN <<c>>
    ELSE IF c < 2048 THEN <<192 + (c \div 64), 128 + (c % 64)>>
    ELSE <<224 + (c \div 4096), 128 + ((c \div 64) % 64), 128 + (c % 64)>>

RECURSIVE StrBytes(_)
\* str::bytes: the bytes of the string.
StrBytes(s) == IF s = <<>> THEN <<>> ELSE EncodeUtf8(Head(s)) \o StrBytes(Tail(s))

\* str::len: the length in bytes.
StrLen(s) == Len(StrBytes(s))

\* Byte index (0-based) at which the i-th character (1-based) starts.
ByteIndex(s, i) == StrLen(SubSeq(s, 1, i - 1))

\* str::char_indices: (byte index, char) for each character.
CharIndices(s) == [i \in 1..Len(s) |-> <<ByteIndex(s, i), s[i]>>]

\* str::is_char_boundary
IsCharBoundary(s, index) ==
    \/ index = StrLen(s)
    \/ \E i \in 1..Len(s) : ByteIndex(s, i) = index

\* A returned &str, and a panic in place of a return.
Returns(s) == [panic |-> FALSE, str |-> s]
Panics == [panic |-> TRUE, str |-> <<>>]

\* &self[from..to]: panics unless from <= to <= len and both are character
\* boundaries; else the characters that start in [from, to).
StrSlice(s, from, to) ==
    IF from > to \/ to > StrLen(s) \/ ~IsCharBoundary(s, from) \/ ~IsCharBoundary(s, to)
    THEN Panics
    ELSE Returns(SelectSeq(
             [i \in 1..Len(s) |-> <<ByteIndex(s, i), s[i]>>],
             LAMBDA p : from <= p[1] /\ p[1] < to))

\* A str slice as the sequence of its characters.
CharsOf(r) == IF r.panic THEN r ELSE Returns([i \in 1..Len(r.str) |-> r.str[i][2]])

\* char::is_ascii_digit
IsAsciiDigit(c) == 48 <= c /\ c <= 57

RECURSIVE MapWhileDigit(_)
\* chars().map_while(|x| x.is_ascii_digit().then_some(x)): the characters up
\* to, not including, the first that is no ASCII digit.
MapWhileDigit(s) ==
    IF s = <<>> THEN <<>>
    ELSE IF IsAsciiDigit(Head(s)) THEN <<Head(s)>> \o MapWhileDigit(Tail(s))
    ELSE <<>>

\* select_first_digits
SelectFirstDigitsFn(s) == Returns(MapWhileDigit(s))

RECURSIVE FirstNonDigitIndex(_, _)
\* The for loop of retain_first_digits over char_indices from position i:
\* index stays 0 until a character that is no ASCII digit is met, takes that
\* character's byte index, and the loop breaks.
FirstNonDigitIndex(ci, i) ==
    IF i > Len(ci) THEN 0
    ELSE IF ~IsAsciiDigit(ci[i][2]) THEN ci[i][1]
    ELSE FirstNonDigitIndex(ci, i + 1)

\* retain_first_digits: &self[..index]
RetainFirstDigitsFn(s) == CharsOf(StrSlice(s, 0, FirstNonDigitIndex(CharIndices(s), 1)))

\* bytes().position(|b| b == delimiter_byte) / rposition: 0-based, <<>> for None.
BytePosition(s, delimiter_byte) ==
    LET b == StrBytes(s)
        hits == {i \in 1..Len(b) : b[i] = delimiter_byte}
    IN  IF hits = {} THEN <<>>
        ELSE <<(CHOOSE i \in hits : \A j \in hits : i <= j) - 1>>
ByteRPosition(s, delimiter_byte) ==
    LET b == StrBytes(s)
        hits == {i \in 1..Len(b) : b[i] = delimiter_byte}
    IN  IF hits = {} THEN <<>>
        ELSE <<(CHOOSE i \in hits : \A j \in hits : i >= j) - 1>>

\* strip_prefix_and_sufix: self when the delimiter is absent, else
\* &self[from..to] with from = position + 1 and to = rposition.
StripPrefixAndSufixFn(s, delimiter_byte) ==
    LET first_at == BytePosition(s, delimiter_byte)
    IN  IF first_at = <<>> THEN Returns(s)
        ELSE LET from == first_at[1] + 1
                 to == ByteRPosition(s, delimiter_byte)[1]
             IN  CharsOf(StrSlice(s, from, to))

\* char_indices().nth_back(k): the (k+1)-th pair from the back, <<>> for None.
CharIndicesNthBack(s, k) ==
    IF k < Len(s) THEN <<CharIndices(s)[Len(s) - k]>> ELSE <<>>

\* get_last_n_chars with num >= 1: &self[split_pos..] or self.
LastNCharsFrom(s, nth) ==
    IF nth # <<>> THEN CharsOf(StrSlice(s, nth[1][1], StrLen(s))) ELSE Returns(s)

\* get_last_n_chars: num - 1 on usize. With num = 0 the subtraction overflows:
\* a panic in a build with overflow checks, usize::MAX in a build without,
\* where nth_back(usize::MAX) is None.
GetLastNCharsFn(s, num, overflow_checks) ==
    IF num = 0
    THEN IF overflow_checks THEN Panics ELSE LastNCharsFrom(s, <<>>)
    ELSE LastNCharsFrom(s, CharIndicesNthBack(s, num - 1))

\* A str before one of the methods is called on it.
InitStr ==
    /\ receiver \in SeqsOf(CharAlphabet, MaxChars)
    /\ argument = <<>>
    /\ called = "-"
    /\ returned = <<>>
    /\ self_after = receiver

SelectFirstDigits ==
    /\ called = "-"
    /\ called' = "select_first_digits"
    /\ returned' = SelectFirstDigitsFn(receiver)
    /\ UNCHANGED <<receiver, argument, self_after>>
    /\ UNCHANGED <<skipLastVars, tryCountVars>>
    /\ UNCHANGED <<chunkVars, uniqueVars>>

RetainFirstDigits ==
    /\ called = "-"
    /\ called' = "retain_first_digits"
    /\ returned' = RetainFirstDigitsFn(receiver)
    /\ UNCHANGED <<receiver, argument, self_after>>
    /\ UNCHANGED <<skipLastVars, tryCountVars>>
    /\ UNCHANGED <<chunkVars, uniqueVars>>

StripPrefixAndSufix ==
    /\ called = "-"
    /\ called' = "strip_prefix_and_sufix"
    /\ \E delimiter_byte \in DelimiterBytes :
          /\ argument' = delimiter_byte
          /\ returned' = StripPrefixAndSufixFn(receiver, delimiter_byte)
    /\ UNCHANGED <<receiver, self_after>>
    /\ UNCHANGED <<skipLastVars, tryCountVars>>
    /\ UNCHANGED <<chunkVars, uniqueVars>>

GetLastNChars ==
    /\ called = "-"
    /\ called' = "get_last_n_chars"
    /\ \E num \in 0..MaxNum, overflow_checks \in BOOLEAN :
          /\ argument' = num
          /\ returned' = GetLastNCharsFn(receiver, num, overflow_checks)
    /\ UNCHANGED <<receiver, self_after>>
    /\ UNCHANGED <<skipLastVars, tryCountVars>>
    /\ UNCHANGED <<chunkVars, uniqueVars>>

\* ========================================================= random.rs

\* Number of values of the unsigned integer type; the values are 0..Modulus-1.
Modulus == 2 ^ WordBits

\* The seed of rand() and the multiplier and increment of VRandom::generate.
Seed == 123456789
Multiplier == 69069
Increment == 362437

\* VRandom::generate on state x: x.wrapping_mul(69069).wrapping_add(362437).
Generate(x) == (((x * (Multiplier % Modulus)) % Modulus) + (Increment % Modulus)) % Modulus

\* rand(): VRandom::new(seed).generate().
Rand == Generate(Seed % Modulus)

\* get_random_integer_v2: Err when min > max, else Ok(min + rand() % (max - min + 1)).
\* max - min + 1 overflows when max - min is the largest value: a panic in a
\* build with overflow checks; in a build without, it wraps to 0 and the
\* remainder by zero panics.
\* u64 addition: the sum when it fits, else a panic ("overflow") in a build
\* with overflow checks and the wrapped sum in a build without.
CheckedAdd(a, b, overflow_checks) ==
    IF a + b < Modulus THEN <<a + b>>
    ELSE IF overflow_checks THEN <<>>
    ELSE <<(a + b) % Modulus>>

GetRandomIntegerV2Fn(min, max, overflow_checks) ==
    IF min > max THEN [kind |-> "Err", val |-> 0]
    ELSE LET range == CheckedAdd(max - min, 1, overflow_checks)
         IN  IF range = <<>> THEN [kind |-> "panic", val |-> 0]
             ELSE IF range[1] = 0
             THEN \* rand() % 0: the remainder by zero panics in every build
                  [kind |-> "panic", val |-> 0]
             ELSE LET sum == CheckedAdd(min, Rand % range[1], overflow_checks)
                  IN  IF sum = <<>> THEN [kind |-> "panic", val |-> 0]
                      ELSE [kind |-> "Ok", val |-> sum[1]]

\* The arguments of one call of get_random_integer_v2.
InitRandomCall ==
    /\ receiver = <<>>
    /\ argument \in (0..(Modulus - 1)) \X (0..(Modulus - 1))
    /\ called = "-"
    /\ returned = <<>>
    /\ self_after = <<>>

GetRandomIntegerV2 ==
    /\ called = "-"
    /\ called' = "get_random_integer_v2"
    /\ \E overflow_checks \in BOOLEAN :
          returned' = GetRandomIntegerV2Fn(argument[1], argument[2], overflow_checks)
    /\ UNCHANGED <<receiver, argument, self_after>>
    /\ UNCHANGED <<skipLastVars, tryCountVars>>
    /\ UNCHANGED <<chunkVars, uniqueVars>>

\* ================================================== SkipLastIterator

IdleSkipLast ==
    /\ peek_iter = <<>>
    /\ peeked = <<>>
    /\ skip_out = <<>>
    /\ skip_ret = "-"

\* SkipLastIterator::new(iter): iter.peekable(), nothing peeked; the same
\* items are also held as a double-ended iterator for IteratorBack::skip_last.
InitSkipLast ==
    /\ peek_iter \in Inputs
    /\ peeked = <<>>
    /\ skip_out = <<>>
    /\ skip_ret = "-"
    /\ receiver = peek_iter
    /\ argument = <<>>
    /\ called = "-"
    /\ returned = <<>>
    /\ self_after = <<>>

\* Iterator::next of the underlying iterator: an Option and the rest.
IterNext(it) ==
    IF it = <<>> THEN [item |-> <<>>, rest |-> <<>>]
    ELSE [item |-> <<Head(it)>>, rest |-> Tail(it)]

\* Peekable::next: the peeked value when there is one, else iter.next().
PeekableNext(it, pk) ==
    IF pk # <<>>
    THEN [item |-> pk[1], iter |-> it, peeked |-> <<>>]
    ELSE [item |-> IterNext(it).item, iter |-> IterNext(it).rest, peeked |-> <<>>]

\* Peekable::peek: peeked.get_or_insert_with(|| iter.next()).
PeekablePeek(it, pk) ==
    IF pk # <<>>
    THEN [item |-> pk[1], iter |-> it, peeked |-> pk]
    ELSE [item |-> IterNext(it).item, iter |-> IterNext(it).rest,
          peeked |-> <<IterNext(it).item>>]

\* The if of SkipLastIterator::next: next_item when peek() is Some, else None.
ReturnNextItem(next_item, peek_item) == next_item
ReturnUnlessLast(next_item, peek_item) ==
    IF peek_item # <<>> THEN next_item ELSE <<>>

\* One call of SkipLastIterator::next().
SkipLastIteratorNext ==
    /\ LET n == PeekableNext(peek_iter, peeked)
           p == PeekablePeek(n.iter, n.peeked)
           r == ReturnUnlessLast(n.item, p.item)
       IN  /\ peek_iter' = p.iter
           /\ peeked' = p.peeked
           /\ IF r # <<>>
              THEN /\ skip_out' = Append(skip_out, r[1])
                   /\ skip_ret' = "Some"
              ELSE /\ skip_out' = skip_out
                   /\ skip_ret' = "None"
    /\ UNCHANGED <<callVars, tryCountVars>>
    /\ UNCHANGED <<chunkVars, uniqueVars>>

\* receiver.into_iter().skip_last() of IteratorBack: returns the iterator.
SkipLast ==
    /\ called = "-"
    /\ called' = "skip_last"
    /\ returned' = SkipLastFn(receiver)
    /\ UNCHANGED <<receiver, argument, self_after>>
    /\ UNCHANGED <<skipLastVars, tryCountVars>>
    /\ UNCHANGED <<chunkVars, uniqueVars>>

\* ========================================================= try_count

IdleTryCount ==
    /\ results = [items |-> <<>>, tail |-> "end"]
    /\ accumulator = 0
    /\ pulled = 0
    /\ counter = [running |-> FALSE]

\* Result<U, E> items: Ok(_) and Err(e).
Ok(n) == [ok |-> TRUE, val |-> n]
Err(e) == [ok |-> FALSE, val |-> e]
ResultItems == {Ok(0)} \cup {Err(e) : e \in 1..MaxErr}

\* An iterator of Results: its items, then either the end (tail = 0) or
\* Err(tail) for ever, as a reader does once its file can no longer be read.
InitTryCount ==
    /\ results \in [items : SeqsOf(ResultItems, MaxLen), tail : 0..MaxErr]
    /\ accumulator = 0
    /\ pulled = 0
    /\ counter = [running |-> TRUE]
    /\ receiver = results
    /\ argument = <<>>
    /\ called = "try_count"
    /\ returned = <<>>
    /\ self_after = <<>>

\* Iterator::next of the iterator of Results.
ResultsNext(it) ==
    IF it.items # <<>>
    THEN [item |-> <<Head(it.items)>>, rest |-> [it EXCEPT !.items = Tail(it.items)]]
    ELSE IF it.tail = 0
    THEN [item |-> <<>>, rest |-> it]
    ELSE [item |-> <<Err(it.tail)>>, rest |-> it]

\* The closure of try_count: element.map(|_| accumulator + 1).
CountAlways(acc, element) == Ok(acc + 1)
CountElement(acc, element) ==
    IF element.ok THEN Ok(acc + 1) ELSE Err(element.val)

\* One turn of the loop of try_fold in try_count: pulls one item; returns
\* Ok(accumulator) at the end of the iterator and the closure's Err at once.
TryFoldStep ==
    /\ counter.running
    /\ LET n == ResultsNext(results)
       IN  /\ results' = n.rest
           /\ IF n.item = <<>>
              THEN /\ counter' = [running |-> FALSE, ok |-> TRUE, val |-> accumulator]
                   /\ UNCHANGED <<accumulator, pulled>>
              ELSE LET r == CountElement(accumulator, n.item[1])
                   IN  /\ pulled' = pulled + 1
                       /\ IF r.ok
                          THEN /\ accumulator' = r.val
                               /\ UNCHANGED counter
                          ELSE /\ counter' = [running |-> FALSE, ok |-> FALSE, val |-> r.val]
                               /\ UNCHANGED accumulator
    /\ UNCHANGED callVars
    /\ UNCHANGED skipLastVars
    /\ UNCHANGED <<chunkVars, uniqueVars>>

IdleExt == IdleCall /\ IdleSkipLast /\ IdleTryCount

\* ===================================================== specifications

InitChunks == InitChunksAtMost /\ IdleUnique /\ IdleExt
NextChunks == ChunksAtMostNext
SpecChunks == InitChunks /\ [][NextChunks]_vars

InitUniqueFilter == IdleChunksAtMost /\ InitUnique /\ IdleExt
NextUnique == UniqueIteratorNext \/ GetUniqueAgain \/ VecUnique
SpecUnique == InitUniqueFilter /\ [][NextUnique]_vars

\* A consumer of the iterator (collect, a for loop) calls next() until it
\* returns None: a call that can change the state is eventually made.
SpecUniqueFair == SpecUnique /\ WF_vars(UniqueIteratorNext)

InitVec == IdleChunksAtMost /\ IdleUnique /\ InitVecCall /\ IdleSkipLast /\ IdleTryCount
NextVec == UniqueOrdered \/ PartitionDup \/ SkipBack
SpecVec == InitVec /\ [][NextVec]_vars

InitSkip == IdleChunksAtMost /\ IdleUnique /\ InitSkipLast /\ IdleTryCount
NextSkip == SkipLastIteratorNext \/ SkipLast
SpecSkipLast == InitSkip /\ [][NextSkip]_vars

InitCount == IdleChunksAtMost /\ IdleUnique /\ IdleSkipLast /\ InitTryCount
NextCount == TryFoldStep
SpecTryCount == InitCount /\ [][NextCount]_vars

InitTrim == IdleChunksAtMost /\ IdleUnique /\ InitBytes /\ IdleSkipLast /\ IdleTryCount
NextTrim == Trim \/ TrimAgain
SpecTrim == InitTrim /\ [][NextTrim]_vars

InitStrings == IdleChunksAtMost /\ IdleUnique /\ InitStr /\ IdleSkipLast /\ IdleTryCount
NextStrings ==
    SelectFirstDigits \/ RetainFirstDigits \/ StripPrefixAndSufix \/ GetLastNChars
SpecStrings == InitStrings /\ [][NextStrings]_vars

InitRandom == IdleChunksAtMost /\ IdleUnique /\ InitRandomCall /\ IdleSkipLast /\ IdleTryCount
NextRandom == GetRandomIntegerV2
SpecRandom == InitRandom /\ [][NextRandom]_vars

\* ============================================================ claims

RECURSIVE SumLen(_)
\* Sum of the lengths of a sequence of chunks.
SumLen(cs) == IF cs = <<>> THEN 0 ELSE Len(Head(cs)) + SumLen(Tail(cs))

RECURSIVE Flatten(_)
\* Concatenation of a sequence of chunks, in order.
Flatten(cs) == IF cs = <<>> THEN <<>> ELSE Head(cs) \o Flatten(Tail(cs))

\* collect() of the chunk iterator has ended: next() returned None.
ChunksDone == ret = "None"

\* C1 as stated: with group_count <= len(data), the run yields exactly
\* group_count chunks and their lengths sum to len(data).
C1_Original ==
    (ChunksDone /\ group_count <= Len(data))
        => (Len(chunks) = group_count /\ SumLen(chunks) = Len(data))

\* C1 (amended): with group_count <= len(data), and group_count >= 1 unless
\* data is empty, the run yields exactly group_count chunks and their
\* lengths sum to len(data).
C1_ChunkCount ==
    (ChunksDone /\ group_count <= Len(data) /\ (group_count >= 1 \/ data = <<>>))
        => (Len(chunks) = group_count /\ SumLen(chunks) = Len(data))

C1_Witness ==
    /\ ChunksDone
    /\ 1 < group_count /\ group_count < Len(data)
    /\ Len(data) % group_count # 0
    /\ Len(chunks) = group_count

\* C2 as stated: for every data and every group_count, the concatenation of
\* the emitted chunks, in emission order, is data.
C2_Original == ChunksDone => Flatten(chunks) = data

\* C2 (amended): for every data and every group_count >= 1 (and for empty
\* data with any group_count), the concatenation of the emitted chunks, in
\* emission order, is data.
C2_Concatenation ==
    (ChunksDone /\ (group_count >= 1 \/ data = <<>>)) => Flatten(chunks) = data

C2_Witness ==
    /\ ChunksDone
    /\ Len(chunks) >= 2
    /\ \E i, j \in 1..Len(data) : data[i] # data[j]
    /\ Flatten(chunks) = data

\* C3: at every point of a run the lengths of the chunks emitted so far are
\* floor(len(data)/group_count) or that plus one, and differ by at most 1.
C3_Balance ==
    /\ \A i \in 1..Len(chunks) :
          \/ Len(chunks[i]) = Len(data) \div group_count
          \/ Len(chunks[i]) = (Len(data) \div group_count) + 1
    /\ \A i, j \in 1..Len(chunks) : Len(chunks[i]) - Len(chunks[j]) <= 1

C3_Witness ==
    /\ ChunksDone
    /\ Len(chunks) >= 2
    /\ \E i, j \in 1..Len(chunks) : Len(chunks[i]) = Len(chunks[j]) + 1

\* C4: a run with group_count = 0, or over empty data, yields no chunk.
C4_Degenerate ==
    (group_count = 0 \/ data = <<>>) => (chunks = <<>> /\ ret # "Some")

C4_Witness ==
    /\ ChunksDone
    /\ group_count = 0
    /\ Len(data) = MaxLen
    /\ chunks = <<>>

\* C5: with group_count >= len(data) every emitted chunk has length 1, and
\* the finished run has at most len(data) chunks and is the result of the
\* run with group_count = len(data).
C5_OverLarge ==
    group_count >= Len(data) =>
        /\ \A i \in 1..Len(chunks) : Len(chunks[i]) = 1
        /\ Len(chunks) <= Len(data)
        /\ ChunksDone => chunks = Collect(data, Len(data))

C5_Witness ==
    /\ ChunksDone
    /\ group_count > Len(data)
    /\ Len(chunks) >= 2

\* C6: with 1 <= group_count <= len(data) the i-th emitted chunk (0-based)
\* has length floor(L/n)+1 when i < L mod n and floor(L/n) otherwise, so the
\* lengths never increase along the emitted sequence.
C6_FrontLoaded ==
    (1 <= group_count /\ group_count <= Len(data)) =>
        /\ \A i \in 1..Len(chunks) :
              Len(chunks[i]) = (Len(data) \div group_count)
                  + (IF i - 1 < Len(data) % group_count THEN 1 ELSE 0)
        /\ \A i \in 1..(Len(chunks) - 1) : Len(chunks[i]) >= Len(chunks[i + 1])

C6_Witness ==
    /\ ChunksDone
    /\ Len(chunks) >= 3
    /\ Len(chunks[1]) > Len(chunks[Len(chunks)])
    /\ Len(data) % group_count >= 1

\* C7: no call of next() panics: each returns a chunk or None, the split
\* index ceil(len(remaining)/groups_left) is at most len(remaining) and
\* groups_left never goes below 0.
C7_NeverFails ==
    /\ panicked = "no"
    /\ ret \in {"-", "Some", "None"}
    /\ chunk_size \in Nat
    /\ ~Exhausted(data_slice, chunk_size)
          => DivCeil(Len(data_slice), chunk_size) <= Len(data_slice)

C7_Witness ==
    /\ ChunksDone
    /\ group_count > Len(data)
    /\ chunks # <<>>
    /\ chunk_size > 0

RECURSIVE FirstOccurrences(_, _)
\* The elements s[i], i >= from, that equal no earlier element of s, in order.
FirstOccurrences(s, from) ==
    IF from > Len(s) THEN <<>>
    ELSE (IF \A j \in 1..(from - 1) : s[j] # s[from] THEN <<s[from]>> ELSE <<>>)
             \o FirstOccurrences(s, from + 1)

NoRepeats(s) == \A i, j \in 1..Len(s) : i # j => s[i] # s[j]

\* C8: the items get_unique has yielded never repeat, and once the iterator
\* over s has ended they are the first occurrences of s, in original order.
C8_FirstOccurrences ==
    pass = 1 =>
        /\ NoRepeats(out)
        /\ uret = "None" => out = FirstOccurrences(source, 1)

C8_Witness ==
    /\ pass = 1
    /\ uret = "None"
    /\ Len(out) >= 2
    /\ Len(out) < Len(source)

\* C9: get_unique over the result of get_unique yields that result again,
\* and a second call of unique() leaves the vector as the first call left it.
C9_Idempotent ==
    /\ (pass = 2 /\ uret = "None") => out = first
    /\ calls = 2 => items = after_first

C9_Witness ==
    /\ pass = 2 /\ uret = "None"
    /\ calls = 2
    /\ Len(first) >= 2
    /\ Len(first) < Len(source)

\* C10: after unique() the vector is the sequence get_unique yields for the
\* original vector: the first occurrence of each value, in original order.
C10_InPlaceEqualsLazy ==
    calls = 1 =>
        /\ items = FirstOccurrences(source, 1)
        /\ (pass = 1 /\ uret = "None") => items = out

C10_Witness ==
    /\ calls = 1
    /\ pass = 1 /\ uret = "None"
    /\ Len(items) >= 2
    /\ Len(items) < Len(source)
    /\ items = out

\* The set of the elements of a sequence.
Range(s) == {s[i] : i \in 1..Len(s)}

\* Number of positions of v that hold x.
Occurrences(v, x) == Cardinality({i \in 1..Len(v) : v[i] = x})

\* C11: after unique_ordered the vector is strictly ascending and holds
\* exactly the distinct values the vector held before the call.
C11_UniqueOrdered ==
    called = "unique_ordered" =>
        /\ \A i \in 1..(Len(self_after) - 1) : self_after[i] < self_after[i + 1]
        /\ Range(self_after) = Range(receiver)

C11_Witness ==
    /\ called = "unique_ordered"
    /\ Len(self_after) >= 2
    /\ Len(self_after) < Len(receiver)
    /\ \E i \in 1..(Len(receiver) - 1) : receiver[i] > receiver[i + 1]

RECURSIVE OccurringOnce(_, _, _)
\* The elements v[i], i >= from, in order, whose value occurs exactly once
\* in v (once = TRUE) or more than once in v (once = FALSE).
OccurringOnce(v, from, once) ==
    IF from > Len(v) THEN <<>>
    ELSE (IF (Occurrences(v, v[from]) = 1) = once THEN <<v[from]>> ELSE <<>>)
             \o OccurringOnce(v, from + 1, once)

\* C14: partition_dup returns in unique the elements whose value occurs once
\* in v and in duplicate every occurrence of the other values, both in
\* original order; the lengths add up to len(v) and v is unchanged.
C14_PartitionDup ==
    called = "partition_dup" =>
        /\ returned.unique = OccurringOnce(receiver, 1, TRUE)
        /\ returned.duplicate = OccurringOnce(receiver, 1, FALSE)
        /\ Len(returned.unique) + Len(returned.duplicate) = Len(receiver)
        /\ self_after = receiver

C14_Witness ==
    /\ called = "partition_dup"
    /\ returned.unique # <<>>
    /\ Len(returned.duplicate) >= 3
    /\ Cardinality(Range(returned.duplicate)) < Len(returned.duplicate)

\* A sequence without its last element (empty for an empty sequence).
AllButLast(s) == IF Len(s) <= 1 THEN <<>> ELSE SubSeq(s, 1, Len(s) - 1)

\* C12: both skip_last adapters yield every element but the last, in order
\* (nothing for an empty or one-element sequence), hence the same sequence.
C12_SkipLast ==
    /\ skip_ret = "None" => skip_out = AllButLast(receiver)
    /\ called = "skip_last" => returned = AllButLast(receiver)
    /\ (skip_ret = "None" /\ called = "skip_last") => skip_out = returned

C12_Witness ==
    /\ skip_ret = "None"
    /\ called = "skip_last"
    /\ Len(receiver) >= 3
    /\ Len(skip_out) = Len(receiver) - 1
    /\ skip_out = returned

\* C13: skip_back(n) yields the first max(0, L - n) elements in order.
C13_SkipBack ==
    called = "skip_back" =>
        LET L == Len(receiver)
            keep == IF L >= argument THEN L - argument ELSE 0
        IN  /\ returned = SubSeq(receiver, 1, keep)
            /\ argument = 0 => returned = receiver
            /\ argument >= L => returned = <<>>

C13_Witness ==
    /\ called = "skip_back"
    /\ argument >= 2
    /\ Len(receiver) > argument
    /\ Len(returned) = Len(receiver) - argument

\* Position of the first Err among the items of an iterator of Results:
\* in its items, or right after them when the tail is Err for ever; 0 when
\* every item is Ok and the iterator ends.
FirstErrAt(it) ==
    LET errs == {i \in 1..Len(it.items) : ~it.items[i].ok}
    IN  IF errs # {} THEN CHOOSE i \in errs : \A j \in errs : i <= j
        ELSE IF it.tail # 0 THEN Len(it.items) + 1
        ELSE 0

\* The item at position i >= 1 of an iterator of Results.
ItemAt(it, i) == IF i <= Len(it.items) THEN it.items[i] ELSE Err(it.tail)

\* C15: try_count returns Ok(number of items) when every item is Ok, and
\* otherwise the first Err, having pulled no item after it; while it runs it
\* has pulled only Ok items, so it returns after at most len(items) + 1 pulls.
C15_TryCount ==
    LET at == FirstErrAt(receiver)
    IN  /\ pulled <= Len(receiver.items) + 1
        /\ counter.running => (accumulator = pulled /\ (at = 0 \/ pulled < at))
        /\ (~counter.running /\ at = 0)
              => (counter = [running |-> FALSE, ok |-> TRUE, val |-> Len(receiver.items)]
                  /\ pulled = Len(receiver.items))
        /\ (~counter.running /\ at # 0)
              => (counter = [running |-> FALSE, ok |-> FALSE, val |-> ItemAt(receiver, at).val]
                  /\ pulled = at)

C15_Witness ==
    /\ ~counter.running
    /\ ~counter.ok
    /\ receiver.tail # 0
    /\ pulled = Len(receiver.items) + 1
    /\ pulled >= 3

\* The ASCII whitespace bytes: tab, line feed, form feed, carriage return, space.
AsciiWhitespace == {9, 10, 12, 13, 32}

\* C16: trim returns the sub-slice from the first to the last byte that is
\* not ASCII whitespace (empty when there is none), so the result neither
\* starts nor ends with ASCII whitespace, and trimming it again changes nothing.
C16_Trim ==
    /\ called = "trim" =>
          LET keep == {i \in 1..Len(receiver) : receiver[i] \notin AsciiWhitespace}
          IN  /\ keep = {} => returned = <<>>
              /\ keep # {} =>
                    /\ \E lo, hi \in keep :
                          /\ \A i \in keep : lo <= i /\ i <= hi
                          /\ returned = SubSeq(receiver, lo, hi)
                    /\ returned[1] \notin AsciiWhitespace
                    /\ returned[Len(returned)] \notin AsciiWhitespace
    /\ called = "trim.trim" => returned = argument

C16_Witness ==
    /\ called = "trim.trim"
    /\ Len(receiver) >= 4
    /\ receiver[1] \in AsciiWhitespace
    /\ Len(returned) = 3
    /\ returned[2] \in AsciiWhitespace

\* The longest prefix of s made only of ASCII digits ('0'..'9').
DigitPrefix(s) ==
    LET ks == {k \in 0..Len(s) : \A i \in 1..k : s[i] \in 48..57}
    IN  SubSeq(s, 1, CHOOSE k \in ks : \A j \in ks : k >= j)

\* C17: retain_first_digits returns the longest prefix of ASCII digits of the
\* string, which is what select_first_digits returns for it, also when the
\* whole string is digits or when it starts with a non-digit.
C17_RetainFirstDigits ==
    called = "retain_first_digits" =>
        /\ returned = Returns(DigitPrefix(receiver))
        /\ returned = SelectFirstDigitsFn(receiver)

\* C18: strip_prefix_and_sufix returns without failure: the input when the
\* delimiter byte does not occur in it, else the text strictly between the
\* first and the last occurrence of the delimiter byte.
C18_StripPrefixAndSufix ==
    called = "strip_prefix_and_sufix" =>
        LET b == StrBytes(receiver)
            occ == {i \in 1..Len(b) : b[i] = argument}
        IN  /\ ~returned.panic
            /\ occ = {} => returned.str = receiver
            /\ occ # {} =>
                  \E lo, hi \in occ :
                      /\ \A i \in occ : lo <= i /\ i <= hi
                      /\ StrBytes(returned.str) = SubSeq(b, lo + 1, hi - 1)

\* C19: get_last_n_chars(num) returns the last min(num, c) characters of a
\* string of c characters, the whole string when num >= c.
C19_GetLastNChars ==
    called = "get_last_n_chars" =>
        LET c == Len(receiver)
            n == IF argument <= c THEN argument ELSE c
        IN  /\ returned = Returns(SubSeq(receiver, c - n + 1, c))
            /\ argument >= c => returned = Returns(receiver)

\* C20: get_random_integer_v2(min, max) returns an error when min > max and
\* otherwise Ok(v) with min <= v <= max, for every pair of values of the type.
C20_RandomInRange ==
    called = "get_random_integer_v2" =>
        LET min == argument[1]
            max == argument[2]
        IN  IF min > max
            THEN returned.kind = "Err"
            ELSE /\ returned.kind = "Ok"
                 /\ min <= returned.val
                 /\ returned.val <= max

\* C21: at every point of a chunks_at_most run, the lengths of the chunks
\* emitted so far plus the length of the remaining slice equal the length of
\* the original input.
C21_LengthConserved ==
    SumLen(chunks) + Len(data_slice) = Len(data)

C21_Witness ==
    /\ ret = "Some"
    /\ Len(chunks) >= 2
    /\ data_slice # <<>>
    /\ chunk_size > 0

\* The least k with k * n >= len, for n > 0.
CeilOf(len, n) == CHOOSE k \in 0..len : k * n >= len /\ (k - 1) * n < len

\* A call of next() that emitted a chunk.
Emitted == Len(chunks') = Len(chunks) + 1

\* C22: a call of next() that emits a chunk emits the first k elements of the
\* remaining slice, k = ceil(len(remaining) / groups_left) taken before the
\* call, leaves the rest after those k elements as the remaining slice, and
\* lowers groups_left by exactly 1.
C22_EmittedChunk ==
    [][Emitted =>
          LET k == CeilOf(Len(data_slice), chunk_size)
          IN  /\ chunk_size > 0
              /\ chunks' = Append(chunks, SubSeq(data_slice, 1, k))
              /\ data_slice' = SubSeq(data_slice, k + 1, Len(data_slice))
              /\ chunk_size' = chunk_size - 1]_vars

C22_Witness ==
    /\ ret = "Some"
    /\ Len(chunks) = 2
    /\ Len(chunks[1]) = 2
    /\ Len(chunks[2]) = 1
    /\ chunk_size = 1
    /\ Len(data_slice) = 1

\* C23: next() returns None exactly when the remaining slice is empty or
\* groups_left is 0; otherwise it emits one chunk, and that chunk is not
\* empty. No chunk emitted so far is empty.
C23_NoneOrNonEmpty ==
    /\ [](\A i \in 1..Len(chunks) : chunks[i] # <<>>)
    /\ [][IF data_slice = <<>> \/ chunk_size = 0
          THEN ret' = "None" /\ chunks' = chunks
          ELSE /\ ret' = "Some"
               /\ Emitted
               /\ chunks'[Len(chunks')] # <<>>]_vars

C23_Witness ==
    /\ ret = "None"
    /\ data_slice = <<>>
    /\ chunk_size >= 2
    /\ Len(chunks) >= 2

\* The smaller of two numbers.
Min(a, b) == IF a <= b THEN a ELSE b

\* C26: a call of next() that returns None changes neither the remaining slice
\* nor groups_left, a None is only ever followed by None, and the run emits at
\* most min(group_count, len(data)) chunks.
C26_StaysExhausted ==
    /\ [](Len(chunks) <= Min(group_count, Len(data)))
    /\ [](ret = "None" => (data_slice = <<>> \/ chunk_size = 0))
    /\ [][ret' = "None" =>
             /\ data_slice' = data_slice
             /\ chunk_size' = chunk_size
             /\ chunks' = chunks]_vars
    /\ [][ret = "None" => ret' = "None"]_vars

C26_Witness ==
    /\ ret = "None"
    /\ chunk_size = 0
    /\ data_slice = <<>>
    /\ Len(chunks) = group_count
    /\ group_count = Len(data)
    /\ group_count >= 2

\* The sequence the UniqueIterator was built over.
UniqueSource == IF pass = 1 THEN source ELSE first

\* The elements next() has pulled from the source so far, in order.
Pulled == SubSeq(UniqueSource, 1, Len(UniqueSource) - Len(iter))

\* C24: seen is exactly the set of the values emitted so far, which is the
\* set of the values pulled from the source so far, and it never holds more
\* values than the source has distinct values.
C24_SeenIsEmitted ==
    /\ seen = Range(out)
    /\ seen = Range(Pulled)
    /\ Cardinality(seen) <= Cardinality(Range(UniqueSource))

C24_Witness ==
    /\ pass = 1
    /\ uret = "Some"
    /\ Len(out) >= 2
    /\ Len(Pulled) > Len(out)
    /\ iter # <<>>

\* A step that is a call of UniqueIterator::next().
UniqueNextCalled == pass' = pass /\ calls' = calls

\* C25: a call of next() pulls elements from the front of the source, one at
\* a time, skipping those already in seen, until one not in seen (inserted
\* and emitted) or the end of the source (None); what is left of the source
\* is always the part not pulled yet, so every element is pulled exactly
\* once; and next() returns None after at most len(source) emissions.
C25_PullsOnceAndEnds ==
    /\ [](iter = SubSeq(UniqueSource, Len(Pulled) + 1, Len(UniqueSource)))
    /\ [](Len(out) <= Len(Pulled))
    /\ [](uret = "None" => iter = <<>>)
    /\ [][UniqueNextCalled =>
             LET k == Len(iter) - Len(iter')
             IN  /\ k >= 0
                 /\ iter' = SubSeq(iter, k + 1, Len(iter))
                 /\ IF uret' = "Some"
                    THEN /\ k >= 1
                         /\ \A i \in 1..(k - 1) : iter[i] \in seen
                         /\ iter[k] \notin seen
                         /\ seen' = seen \cup {iter[k]}
                         /\ out' = Append(out, iter[k])
                    ELSE /\ uret' = "None"
                         /\ k = Len(iter)
                         /\ \A i \in 1..k : iter[i] \in seen
                         /\ seen' = seen
                         /\ out' = out]_vars
    /\ (uret # "None") ~> (uret = "None")

C25_Witness ==
    /\ pass = 1
    /\ uret = "None"
    /\ iter = <<>>
    /\ Len(out) >= 2
    /\ Len(source) >= Len(out) + 2

=============================================================================
